---- MODULE Spec2Model ----
(***************************************************************************)
(* RingBuffer<DataType> of RingBuffer_Full.cpp, instantiated at            *)
(* DataType = int as in the test fixture.                                  *)
(*                                                                         *)
(* The object is the five members m_elements, m_ringbuffer, m_front,       *)
(* m_back, m_count.  The three index members are uint16_t, so every        *)
(* increment and decrement is taken modulo Word.  The backing array is     *)
(* kept in pages of PageSize slots: slot ix of the C++ array is element    *)
(* ix % PageSize + 1 of page ix \div PageSize + 1 of m_ringbuffer, so that  *)
(* an array of 65535 slots is a sequence of short sequences.               *)
(* `calls' is the caller's record of the calls made so far on the object,  *)
(* each with its argument, its result and the object's members just        *)
(* before the call.                                                        *)
(***************************************************************************)
EXTENDS Integers, Sequences, FiniteSets, TLC

\* ---- bounds of the exploration ----
MaxCap == 3      \* largest capacity of a freshly constructed buffer
MaxVal == 1      \* element values are 0..MaxVal
MaxOps == 5      \* calls explored on a buffer of capacity <= MaxCap
WideOps == 3     \* calls explored on a buffer of capacity > MaxCap

\* ---- program constants ----
Word == 65536            \* uint16_t holds 0 .. Word - 1
MaxSize == Word - 1      \* largest value of the constructor's uint16_t size
PageSize == 256          \* slots per page of the array representation

Values == 0..MaxVal
Sizes == 0..MaxCap
FixtureSizes == (1..MaxCap) \cup {MaxSize}
NoVal == -1              \* "no argument" / "no output location" in calls

VARIABLES m_elements, m_ringbuffer, m_front, m_back, m_count, oob, calls

vars == <<m_elements, m_ringbuffer, m_front, m_back, m_count, oob, calls>>

\* ---- the object as a value ----

\* The array new DataType[size] whose slot ix holds flat[ix + 1].
PageCount(size) == (size + PageSize - 1) \div PageSize

PageLen(size, p) ==
  IF p < PageCount(size) THEN PageSize ELSE size - (p - 1) * PageSize

Paged(flat, size) ==
  [p \in 1..PageCount(size) |->
     [o \in 1..PageLen(size, p) |-> flat[(p - 1) * PageSize + o]]]

\* m_ringbuffer[ix] read, for an index ix of the C++ array
Slot(buf, ix) == buf[(ix \div PageSize) + 1][(ix % PageSize) + 1]

\* m_ringbuffer[ix] = val
Store(buf, ix, val) ==
  [buf EXCEPT ![(ix \div PageSize) + 1][(ix % PageSize) + 1] = val]

Self ==
  [elements |-> m_elements, buf |-> m_ringbuffer, front |-> m_front,
   back |-> m_back, count |-> m_count, oob |-> oob]

\* AdvanceIndex with the wrap test written > instead of >=
AdvanceIndex_WrapLate(ix, elements) ==
  LET inc == (ix + 1) % Word
  IN IF inc > elements THEN 0 ELSE inc

\* void AdvanceIndex(uint16_t& ix): if(++ix >= m_elements) ix = 0;
AdvanceIndex(ix, elements) ==
  LET inc == (ix + 1) % Word
  IN IF inc >= elements THEN 0 ELSE inc

\* RingBuffer(const uint16_t size): new DataType[size] default-initialises,
\* which for int leaves every slot with an indeterminate value `raw'.
RingBuffer(size, raw) ==
  [elements |-> size, buf |-> raw, front |-> 0, back |-> 0, count |-> 0,
   oob |-> FALSE]

\* The indeterminate contents new DataType[size] can have.
Indeterminate(size) == {Paged(flat, size) : flat \in [1..size -> Values]}

\* Add without the m_count-- of the overflow branch
AddRb_NoDecrement(rb, val) ==
  LET inside == rb.front < rb.elements
      buf1 == IF inside THEN Store(rb.buf, rb.front, val) ELSE rb.buf
      front1 == AdvanceIndex(rb.front, rb.elements)
      count1 == (rb.count + 1) % Word
      oob1 == rb.oob \/ ~inside
  IN IF count1 > rb.elements
     THEN [rb |-> [rb EXCEPT !.buf = buf1, !.front = front1,
                             !.back = AdvanceIndex(rb.back, rb.elements),
                             !.count = count1, !.oob = oob1],
           ret |-> FALSE, out |-> NoVal]
     ELSE [rb |-> [rb EXCEPT !.buf = buf1, !.front = front1,
                             !.count = count1, !.oob = oob1],
           ret |-> TRUE, out |-> NoVal]

\* Add with the overflow test written >= instead of >
AddRb_EvictEarly(rb, val) ==
  LET inside == rb.front < rb.elements
      buf1 == IF inside THEN Store(rb.buf, rb.front, val) ELSE rb.buf
      front1 == AdvanceIndex(rb.front, rb.elements)
      count1 == (rb.count + 1) % Word
      oob1 == rb.oob \/ ~inside
  IN IF count1 >= rb.elements
     THEN [rb |-> [rb EXCEPT !.buf = buf1, !.front = front1,
                             !.back = AdvanceIndex(rb.back, rb.elements),
                             !.count = (count1 + Word - 1) % Word,
                             !.oob = oob1],
           ret |-> FALSE, out |-> NoVal]
     ELSE [rb |-> [rb EXCEPT !.buf = buf1, !.front = front1,
                             !.count = count1, !.oob = oob1],
           ret |-> TRUE, out |-> NoVal]

\* bool Add(DataType val)
\* std::span::operator[] is unchecked: a write at an index that is not below
\* m_elements lands outside the array and is recorded in oob.
AddRb(rb, val) ==
  LET inside == rb.front < rb.elements
      buf1 == IF inside THEN Store(rb.buf, rb.front, val) ELSE rb.buf
      front1 == AdvanceIndex(rb.front, rb.elements)
      count1 == (rb.count + 1) % Word
      oob1 == rb.oob \/ ~inside
  IN IF count1 > rb.elements
     THEN [rb |-> [rb EXCEPT !.buf = buf1, !.front = front1,
                             !.back = AdvanceIndex(rb.back, rb.elements),
                             !.count = (count1 + Word - 1) % Word,
                             !.oob = oob1],
           ret |-> FALSE, out |-> NoVal]
     ELSE [rb |-> [rb EXCEPT !.buf = buf1, !.front = front1,
                             !.count = count1, !.oob = oob1],
           ret |-> TRUE, out |-> NoVal]

\* Remove with the memset placed before the read of the slot
RemoveRb_ClearFirst(rb, indet) ==
  IF rb.count > 0
  THEN LET inside == rb.back < rb.elements
       IN [rb |-> [rb EXCEPT
                     !.buf = IF inside THEN Store(rb.buf, rb.back, 0)
                                       ELSE rb.buf,
                     !.back = AdvanceIndex(rb.back, rb.elements),
                     !.count = (rb.count + Word - 1) % Word,
                     !.oob = rb.oob \/ ~inside],
           ret |-> TRUE,
           out |-> IF inside THEN 0 ELSE indet]
  ELSE [rb |-> rb, ret |-> FALSE, out |-> 0]

\* Remove without the memset of the removed slot
RemoveRb_NoClear(rb, indet) ==
  IF rb.count > 0
  THEN LET inside == rb.back < rb.elements
       IN [rb |-> [rb EXCEPT
                     !.back = AdvanceIndex(rb.back, rb.elements),
                     !.count = (rb.count + Word - 1) % Word,
                     !.oob = rb.oob \/ ~inside],
           ret |-> TRUE,
           out |-> IF inside THEN Slot(rb.buf, rb.back) ELSE indet]
  ELSE [rb |-> rb, ret |-> FALSE, out |-> 0]

\* Remove without the m_count > 0 test
RemoveRb_NoEmptyTest(rb, indet) ==
  LET inside == rb.back < rb.elements
  IN [rb |-> [rb EXCEPT
                !.buf = IF inside THEN Store(rb.buf, rb.back, 0)
                                  ELSE rb.buf,
                !.back = AdvanceIndex(rb.back, rb.elements),
                !.count = (rb.count + Word - 1) % Word,
                !.oob = rb.oob \/ ~inside],
      ret |-> TRUE,
      out |-> IF inside THEN Slot(rb.buf, rb.back) ELSE indet]

\* Remove that resets both indices to 0 when it drains the buffer
RemoveRb_ResetOnDrain(rb, indet) ==
  IF rb.count > 0
  THEN LET inside == rb.back < rb.elements
           drained == rb.count = 1
       IN [rb |-> [rb EXCEPT
                     !.buf = IF inside THEN Store(rb.buf, rb.back, 0)
                                       ELSE rb.buf,
                     !.front = IF drained THEN 0 ELSE rb.front,
                     !.back = IF drained THEN 0
                              ELSE AdvanceIndex(rb.back, rb.elements),
                     !.count = (rb.count + Word - 1) % Word,
                     !.oob = rb.oob \/ ~inside],
           ret |-> TRUE,
           out |-> IF inside THEN Slot(rb.buf, rb.back) ELSE indet]
  ELSE [rb |-> rb, ret |-> FALSE, out |-> 0]

\* bool Remove(DataType& outVal)
\* A read at an index outside the array yields the indeterminate `indet'.
RemoveRb(rb, indet) ==
  IF rb.count > 0
  THEN LET inside == rb.back < rb.elements
       IN [rb |-> [rb EXCEPT
                     !.buf = IF inside THEN Store(rb.buf, rb.back, 0)
                                       ELSE rb.buf,
                     !.back = AdvanceIndex(rb.back, rb.elements),
                     !.count = (rb.count + Word - 1) % Word,
                     !.oob = rb.oob \/ ~inside],
           ret |-> TRUE,
           out |-> IF inside THEN Slot(rb.buf, rb.back) ELSE indet]
  ELSE [rb |-> rb, ret |-> FALSE, out |-> 0]

\* bool Remove(void): DataType tmpVal; return Remove(tmpVal);
RemoveVoidRb(rb, indet) ==
  LET r == RemoveRb(rb, indet)
  IN [rb |-> r.rb, ret |-> r.ret, out |-> NoVal]

\* void PopulateAll(): for(int i = 1; i <= m_elements; i++) Add(i);
\* The calls Add(lo), ..., Add(hi) are made in this order; the range is
\* split in halves and the left half is evaluated before the right one only
\* to keep the evaluation depth logarithmic.
RECURSIVE PopulateRange(_, _, _)
PopulateRange(rb, lo, hi) ==
  IF lo > hi THEN rb
  ELSE IF lo = hi THEN AddRb(rb, lo).rb
  ELSE LET mid == (lo + hi) \div 2
           left == PopulateRange(rb, lo, mid)
       IN IF left.elements = rb.elements
          THEN PopulateRange(left, mid + 1, hi)
          ELSE left

PopulateAll(rb) == PopulateRange(rb, 1, rb.elements)

\* ---- the state machine ----

Install(rb) ==
  /\ m_elements = rb.elements
  /\ m_ringbuffer = rb.buf
  /\ m_front = rb.front
  /\ m_back = rb.back
  /\ m_count = rb.count
  /\ oob = rb.oob

\* A test body that constructs a buffer and calls it.
Init ==
  /\ \E size \in Sizes : \E raw \in Indeterminate(size) :
       Install(RingBuffer(size, raw))
  /\ calls = <<>>

\* ringbuffer_test_cases: ringbuf(size) in the fixture's constructor, then
\* SetUp() calls PopulateAll(), which overwrites every slot.
InitFixture ==
  /\ \E size \in FixtureSizes :
       LET raw == Paged([i \in 1..size |-> 0], size)
       IN Install(PopulateAll(RingBuffer(size, raw)))
  /\ calls = <<>>

\* The values the read m_ringbuffer[m_back] of Remove can yield when it is
\* outside the array; a read inside the array leaves nothing to choose.
ReadChoices ==
  IF m_count > 0 /\ m_back >= m_elements THEN Values ELSE {0}

OpLimit == IF m_elements > MaxCap THEN WideOps ELSE MaxOps

Pre == [front |-> m_front, back |-> m_back, count |-> m_count,
        buf |-> m_ringbuffer]

\* One call of the caller on the object: the members take the values the
\* method leaves and the call is appended to the caller's record.
Call(op, arg, res) ==
  /\ m_elements' = res.rb.elements
  /\ m_ringbuffer' = res.rb.buf
  /\ m_front' = res.rb.front
  /\ m_back' = res.rb.back
  /\ m_count' = res.rb.count
  /\ oob' = res.rb.oob
  /\ calls' = Append(calls, [op |-> op, arg |-> arg, ret |-> res.ret,
                             out |-> res.out, pre |-> Pre])

Add ==
  /\ Len(calls) < OpLimit
  /\ \E val \in Values : Call("Add", val, AddRb(Self, val))

Remove ==
  /\ Len(calls) < OpLimit
  /\ \E indet \in ReadChoices :
       Call("Remove", NoVal, RemoveRb(Self, indet))

RemoveVoid ==
  /\ Len(calls) < OpLimit
  /\ \E indet \in ReadChoices :
       Call("RemoveVoid", NoVal, RemoveVoidRb(Self, indet))

Next == Add \/ Remove \/ RemoveVoid

Spec == Init /\ [][Next]_vars

SpecFixture == InitFixture /\ [][Next]_vars

\* ---- the caller's record ----

NumCalls == Len(calls)

LastCall == calls[NumCalls]

\* The members just after call i: those before call i + 1, or the current
\* ones when call i is the last.
PostOf(i) == IF i = NumCalls THEN Pre ELSE calls[i + 1].pre

\* Calls i + 1 .. i + k are all Remove(outVal).
RemovesAfter(i, k) ==
  /\ i + k <= NumCalls
  /\ \A j \in 1..k : calls[i + j].op = "Remove"

\* The record is exactly n calls of Add followed by k calls of Remove(outVal).
AddsThenRemoves(n, k) ==
  /\ NumCalls = n + k
  /\ \A i \in 1..n : calls[i].op = "Add"
  /\ RemovesAfter(n, k)

\* ---- C1 ----
\* C1: on a buffer of capacity C >= 1, after any sequence of Add and Remove
\* calls the occupied count satisfies 0 <= count <= C.
C1_CountWithinCapacity ==
  m_elements >= 1 => (0 <= m_count /\ m_count <= m_elements)

\* An Add on a full buffer has just run, after more calls than the capacity.
C1_Witness ==
  /\ m_elements >= 1
  /\ NumCalls > m_elements
  /\ LastCall.op = "Add"
  /\ LastCall.pre.count = m_elements
  /\ m_count = m_elements

\* ---- C2 ----
\* C2: from a freshly constructed buffer of capacity C, N <= C calls of Add
\* followed by Remove(outVal) calls: every one of the first N removals
\* returns true and the j-th removal yields the j-th value added.
C2_FifoOrder ==
  \A n \in 1..NumCalls : \A k \in 0..n :
    (n <= m_elements /\ AddsThenRemoves(n, k)) =>
      \A j \in 1..k :
        /\ calls[n + j].ret = TRUE
        /\ calls[n + j].out = calls[j].arg

\* The buffer was filled to capacity with values that differ and drained.
C2_Witness ==
  /\ m_elements >= 2
  /\ AddsThenRemoves(m_elements, m_elements)
  /\ calls[1].arg # calls[2].arg

\* ---- C3 ----
\* C3: Add(v) on a full buffer holding e1..eC (e1 oldest, in slot back)
\* returns false, and the next C calls of Remove(outVal) yield e2, ..., eC,
\* v in this order.
C3_EvictsOldest ==
  \A i \in 1..NumCalls :
    (calls[i].op = "Add" /\ m_elements >= 1
       /\ calls[i].pre.count = m_elements) =>
      /\ calls[i].ret = FALSE
      /\ \A j \in 1..NumCalls :
           (j <= m_elements /\ RemovesAfter(i, j)) =>
             /\ calls[i + j].ret = TRUE
             /\ calls[i + j].out =
                  IF j = m_elements
                  THEN calls[i].arg
                  ELSE Slot(calls[i].pre.buf,
                            (calls[i].pre.back + j) % m_elements)

\* ---- C4 ----
\* C4: Add returns true exactly when count < capacity held before the call
\* and false exactly when count = capacity held before the call.
C4_AddResult ==
  \A i \in 1..NumCalls :
    calls[i].op = "Add" =>
      /\ calls[i].ret = TRUE <=> calls[i].pre.count < m_elements
      /\ calls[i].ret = FALSE <=> calls[i].pre.count = m_elements

\* ---- C5 ----
\* C5: Remove(outVal) with count > 0 returns true, yields the value that was
\* in slot back, zeroes that slot, advances back by one modulo capacity and
\* decreases count by one.
C5_RemoveNonEmpty ==
  \A i \in 1..NumCalls :
    (calls[i].op = "Remove" /\ calls[i].pre.count > 0) =>
      /\ calls[i].ret = TRUE
      /\ calls[i].out = Slot(calls[i].pre.buf, calls[i].pre.back)
      /\ Slot(PostOf(i).buf, calls[i].pre.back) = 0
      /\ PostOf(i).back = (calls[i].pre.back + 1) % m_elements
      /\ PostOf(i).count = calls[i].pre.count - 1

\* A non-zero value has just been removed from the last slot, so that back
\* wrapped to 0.
C5_Witness ==
  /\ m_elements >= 2
  /\ NumCalls >= 1
  /\ LastCall.op = "Remove"
  /\ LastCall.pre.count > 0
  /\ LastCall.pre.back = m_elements - 1
  /\ LastCall.out > 0
  /\ m_back = 0

\* ---- C6 ----
\* C6: Remove of either form with count = 0 returns false, writes zero to
\* the output location when there is one, and leaves count, front, back and
\* every slot as they were, however often it is repeated.
C6_RemoveEmpty ==
  \A i \in 1..NumCalls :
    (calls[i].op \in {"Remove", "RemoveVoid"} /\ calls[i].pre.count = 0) =>
      /\ calls[i].ret = FALSE
      /\ calls[i].op = "Remove" => calls[i].out = 0
      /\ PostOf(i) = calls[i].pre

\* Both forms have been called in a row on an empty buffer that was used
\* before and whose indices are not 0.
C6_Witness ==
  /\ m_elements >= 2
  /\ NumCalls >= 4
  /\ calls[NumCalls - 1].op = "RemoveVoid"
  /\ calls[NumCalls - 1].pre.count = 0
  /\ LastCall.op = "Remove"
  /\ LastCall.pre.count = 0
  /\ m_front > 0

\* ---- C7 ----
\* C7: on a buffer of capacity C >= 1, front and back stay in 0 .. C - 1, so
\* that no call indexes a slot outside the backing storage.
C7_IndicesInRange ==
  m_elements >= 1 =>
    /\ 0 <= m_front /\ m_front < m_elements
    /\ 0 <= m_back /\ m_back < m_elements
    /\ ~oob

\* front has just wrapped from the last slot to 0 and back has reached the
\* last slot.
C7_Witness ==
  /\ m_elements >= 2
  /\ NumCalls >= 1
  /\ LastCall.op = "Add"
  /\ LastCall.pre.front = m_elements - 1
  /\ m_front = 0
  /\ m_back = m_elements - 1

\* ---- C8 ----
\* C8: in every reachable state, count = 0 or count = capacity implies
\* front = back.
C8_EmptyOrFullCursorsMeet ==
  (m_count = 0 \/ m_count = m_elements) => m_front = m_back

\* ---- C9 ----
\* C9: the constructor rejects capacity 0, so no buffer of capacity 0 exists.
C9_ZeroCapacityRejected == m_elements # 0

\* ---- C10 ----
\* C10: right after construction front, back and count are 0 and every one
\* of the C slots holds zero.
C10_FreshIsZeroed ==
  NumCalls = 0 =>
    /\ m_front = 0
    /\ m_back = 0
    /\ m_count = 0
    /\ \A ix \in 0..(m_elements - 1) : Slot(m_ringbuffer, ix) = 0

\* ---- the calls made before the test body ----

\* The members at the start of the test body.
FirstPre == IF NumCalls = 0 THEN Pre ELSE calls[1].pre

\* The number of calls of Add made by SetUp's PopulateAll: m_elements when
\* the body starts on a populated buffer, none on a fresh one.
SetupAdds == IF FirstPre.count > 0 THEN m_elements ELSE 0

\* No call of the record is a removal.
OnlyAdds == \A i \in 1..NumCalls : calls[i].op = "Add"

\* The value of the j-th call of Add since construction, counted from 0,
\* when the record holds only calls of Add: PopulateAll adds 1, 2, ...
AddedValue(j) ==
  IF j < SetupAdds THEN j + 1 ELSE calls[j - SetupAdds + 1].arg

\* ---- C11 ----
\* C11: after K >= C calls of Add on a new buffer of capacity C and no
\* removal, count = C, front = back = K mod C, and slot j mod C holds the
\* j-th added value for each of the last C calls j = K - C .. K - 1.
C11_LastValuesHeld ==
  LET K == SetupAdds + NumCalls
      C == m_elements
  IN (C >= 1 /\ OnlyAdds /\ K >= C) =>
       /\ m_count = C
       /\ m_front = K % C
       /\ m_back = K % C
       /\ \A j \in (K - C)..(K - 1) :
            Slot(m_ringbuffer, j % C) = AddedValue(j)

\* ---- C12 ----
\* C12: Add(v) with count = capacity stores v in the slot at the pre-call
\* front, which is the slot of the oldest element, advances front and back
\* by one modulo capacity so that they stay equal, leaves count at capacity
\* and changes no other slot.
C12_AddOnFull ==
  \A i \in 1..NumCalls :
    (calls[i].op = "Add" /\ m_elements >= 1
       /\ calls[i].pre.count = m_elements) =>
      /\ calls[i].pre.front = calls[i].pre.back
      /\ PostOf(i).buf = Store(calls[i].pre.buf, calls[i].pre.front,
                               calls[i].arg)
      /\ PostOf(i).front = (calls[i].pre.front + 1) % m_elements
      /\ PostOf(i).back = (calls[i].pre.back + 1) % m_elements
      /\ PostOf(i).front = PostOf(i).back
      /\ PostOf(i).count = m_elements

\* ---- C13 ----
\* C13: with EMPTY count = 0, PARTIAL 0 < count < capacity and FULL
\* count = capacity, Add from EMPTY or PARTIAL raises count by one and
\* lands in PARTIAL or FULL, Add from FULL lands in FULL, a removal from
\* PARTIAL or FULL lowers count by one and lands in PARTIAL or EMPTY, and a
\* removal from EMPTY lands in EMPTY.
C13_OccupancyTransitions ==
  \A i \in 1..NumCalls :
    m_elements >= 1 =>
      LET before == calls[i].pre.count
          after == PostOf(i).count
      IN /\ (calls[i].op = "Add" /\ before < m_elements) =>
              (after = before + 1 /\ 0 < after /\ after <= m_elements)
         /\ (calls[i].op = "Add" /\ before = m_elements) =>
              after = m_elements
         /\ (calls[i].op \in {"Remove", "RemoveVoid"} /\ before > 0) =>
              (after = before - 1 /\ 0 <= after /\ after < m_elements)
         /\ (calls[i].op \in {"Remove", "RemoveVoid"} /\ before = 0) =>
              after = 0

\* ---- spans of slots ----

IsRemoval(i) == calls[i].op \in {"Remove", "RemoveVoid"}

\* Calls i .. i + k - 1 are all removals, of either form.
RemovalsFrom(i, k) ==
  /\ i + k - 1 <= NumCalls
  /\ \A j \in 0..(k - 1) : IsRemoval(i + j)

\* Slot ix lies in the circular span of k slots that starts at slot b of an
\* array of c slots.
InSpan(ix, b, k, c) == ((ix - b + c) % c) < k

\* Slot ix has been written by a call of Add since construction.
Written(ix) ==
  \/ SetupAdds > 0
  \/ \E i \in 1..NumCalls :
       calls[i].op = "Add" /\ calls[i].pre.front = ix

\* ---- C14 ----
\* C14: k <= n consecutive removals from a state with count = n and
\* back = b leave count = n - k and back = (b + k) mod capacity, zero
\* exactly the slots b, ..., b + k - 1 (mod capacity) and leave front as it
\* was; with k = n the buffer ends empty with back = front.
C14_ConsecutiveRemovals ==
  \A i \in 1..NumCalls : \A k \in 1..NumCalls :
    (m_elements >= 1 /\ RemovalsFrom(i, k) /\ k <= calls[i].pre.count) =>
      LET from == calls[i].pre
          to == PostOf(i + k - 1)
      IN /\ to.count = from.count - k
         /\ to.back = (from.back + k) % m_elements
         /\ to.front = from.front
         /\ \A ix \in 0..(m_elements - 1) :
              Slot(to.buf, ix) =
                IF InSpan(ix, from.back, k, m_elements)
                THEN 0
                ELSE Slot(from.buf, ix)
         /\ k = from.count => (to.count = 0 /\ to.back = to.front)

\* ---- C15 ----
\* C15: a slot outside the occupied span [back, back + count) holds zero,
\* or, when no Add has written it, the value it had at construction; so
\* once every slot has been written, count = 0 leaves every slot zero.
C15_VacatedSlotsCleared ==
  m_elements >= 1 =>
    /\ \A ix \in 0..(m_elements - 1) :
         ~InSpan(ix, m_back, m_count, m_elements) =>
           \/ Slot(m_ringbuffer, ix) = 0
           \/ /\ ~Written(ix)
              /\ Slot(m_ringbuffer, ix) = Slot(FirstPre.buf, ix)
    /\ ((\A ix \in 0..(m_elements - 1) : Written(ix)) /\ m_count = 0) =>
         \A ix \in 0..(m_elements - 1) : Slot(m_ringbuffer, ix) = 0

\* ---- C16 ----
\* The drop-oldest bounded FIFO run beside the buffer: its contents after
\* the first i calls of the record.  PopulateAll has appended 1, 2, ...
RECURSIVE AbstractQueue(_)
AbstractQueue(i) ==
  IF i = 0
  THEN IF SetupAdds = 0 THEN <<>> ELSE [j \in 1..SetupAdds |-> j]
  ELSE LET q == AbstractQueue(i - 1)
       IN IF calls[i].op = "Add"
          THEN LET longer == Append(q, calls[i].arg)
               IN IF Len(longer) > m_elements THEN Tail(longer) ELSE longer
          ELSE IF q # <<>> THEN Tail(q) ELSE q

\* C16: after any interleaving of calls, count = Len(q), the slots back,
\* back + 1, ..., back + count - 1 (mod capacity) hold q in order, and every
\* successful Remove(outVal) yields the head of q.
C16_RefinesBoundedFifo ==
  /\ LET q == AbstractQueue(NumCalls)
     IN /\ m_count = Len(q)
        /\ \A j \in 1..Len(q) :
             Slot(m_ringbuffer, (m_back + j - 1) % m_elements) = q[j]
  /\ \A i \in 1..NumCalls :
       (calls[i].op = "Remove" /\ calls[i].ret = TRUE) =>
         /\ AbstractQueue(i - 1) # <<>>
         /\ calls[i].out = Head(AbstractQueue(i - 1))

\* ---- C17 ----
\* C17: on a buffer of capacity C >= 1, front = (back + count) mod C in
\* every reachable state.
C17_FrontLeadsBackByCount ==
  m_elements >= 1 => m_front = (m_back + m_count) % m_elements

\* ---- C18 ----
\* C18: Add(v) with count < capacity writes v into the slot at the pre-call
\* front, advances front by one modulo capacity, raises count by one and
\* leaves back and every other slot as they were.
C18_AddBelowCapacity ==
  \A i \in 1..NumCalls :
    (calls[i].op = "Add" /\ calls[i].pre.count < m_elements) =>
      /\ PostOf(i).buf = Store(calls[i].pre.buf, calls[i].pre.front,
                               calls[i].arg)
      /\ PostOf(i).front = (calls[i].pre.front + 1) % m_elements
      /\ PostOf(i).count = calls[i].pre.count + 1
      /\ PostOf(i).back = calls[i].pre.back

\* A non-zero value has just been added to a partly filled buffer from
\* which an element had been removed before.
C18_Witness ==
  /\ m_elements >= 2
  /\ NumCalls >= 2
  /\ LastCall.op = "Add"
  /\ LastCall.arg > 0
  /\ LastCall.pre.count > 0
  /\ LastCall.pre.count < m_elements
  /\ \E i \in 1..(NumCalls - 1) : IsRemoval(i) /\ calls[i].ret = TRUE

\* ---- C19 ----
\* C19: a removal of either form, in any state, changes neither front nor
\* the capacity and changes no slot other than the one at the pre-call back.
C19_RemoveFrame ==
  [][(Len(calls') = NumCalls + 1
        /\ calls'[NumCalls + 1].op \in {"Remove", "RemoveVoid"}) =>
       /\ m_front' = m_front
       /\ m_elements' = m_elements
       /\ \A ix \in 0..(m_elements - 1) :
            ix # m_back =>
              Slot(m_ringbuffer', ix) = Slot(m_ringbuffer, ix)]_vars

\* A removal has just cleared a non-zero slot and the element behind it is
\* still held.
C19_Witness ==
  /\ m_elements >= 2
  /\ NumCalls >= 1
  /\ IsRemoval(NumCalls)
  /\ LastCall.pre.count >= 2
  /\ Slot(LastCall.pre.buf, LastCall.pre.back) > 0
  /\ Slot(m_ringbuffer, LastCall.pre.back) = 0
  /\ Slot(m_ringbuffer, m_back) > 0

\* ---- C20 ----
\* C20: for every capacity from 1 to 65535, Add on a full buffer returns
\* false, advances back and leaves count equal to capacity: the 16-bit
\* increment of count never wraps a full buffer to count = 0.
C20_NoCountWrap ==
  \A i \in 1..NumCalls :
    (calls[i].op = "Add" /\ m_elements \in 1..MaxSize
       /\ calls[i].pre.count = m_elements) =>
      /\ calls[i].ret = FALSE
      /\ PostOf(i).count = m_elements
      /\ PostOf(i).count # 0
      /\ PostOf(i).back # calls[i].pre.back \/ m_elements = 1

====
